---- MODULE Spec2Model ----
(***************************************************************************)
(* A model of cameraunit's image data core (src/src/imagedata.rs):         *)
(* ImageData, its conversions to and from SerialImageData<T>, its serde    *)
(* Serialize implementation, ImageData::save_fits and                      *)
(* ImageData::find_optimum_exposure; and of the default methods of the     *)
(* driver traits CameraInfo and CameraUnit (src/src/lib.rs).               *)
(*                                                                         *)
(* Values of the element types u8, u16 and f32 are naturals: the code      *)
(* moves and copies elements and never computes with them in the parts     *)
(* modelled here.  Text that the code inspects character by character      *)
(* (file_prefix, camera_name) is a sequence of one-character strings.      *)
(***************************************************************************)
EXTENDS Integers, Sequences, FiniteSets, TLC

VARIABLES img, imgOf, ser, serOf, wire, wireOf, fs, camera, last

vars == <<img, imgOf, ser, serOf, wire, wireOf, fs, camera, last>>

(***************************************************************************)
(* Bounds of the model.                                                    *)
(***************************************************************************)
MaxWidth == 2
MaxHeight == 2
MaxSeed == 1
MaxSlack == 1

(***************************************************************************)
(* Result<T, E> and a panic (an abort of the call).                        *)
(***************************************************************************)
Nothing == [none |-> TRUE]

Ok(v) == [tag |-> "Ok", val |-> v, err |-> ""]

Err(msg) == [tag |-> "Err", val |-> Nothing, err |-> msg]

Panic(msg) == [tag |-> "Panic", val |-> Nothing, err |-> msg]

(***************************************************************************)
(* image::ColorType.  The enum is #[non_exhaustive]: "Unknown" stands for  *)
(* a variant outside the ten the code names, the case of its `_ =>` arms.  *)
(***************************************************************************)
Colors8 == {"L8", "La8", "Rgb8", "Rgba8"}

Colors16 == {"L16", "La16", "Rgb16", "Rgba16"}

Colors32F == {"Rgb32F", "Rgba32F"}

SupportedColors == Colors8 \cup Colors16 \cup Colors32F

ColorTypes == SupportedColors \cup {"Unknown"}

StorageTypes == {"U8", "U16", "F32"}

\* ColorType::channel_count
ChannelCount(color) ==
    CASE color \in {"L8", "L16"} -> 1
      [] color \in {"La8", "La16"} -> 2
      [] color \in {"Rgb8", "Rgb16", "Rgb32F"} -> 3
      [] color \in {"Rgba8", "Rgba16", "Rgba32F"} -> 4
      [] OTHER -> 0

\* TryFrom<ColorType> for SerialImagePixel, as used at imagedata.rs:585 and :611
PixelOfColor(color) ==
    CASE color \in Colors8 -> Ok([elem |-> "U8", n |-> ChannelCount(color)])
      [] color \in Colors16 -> Ok([elem |-> "U16", n |-> ChannelCount(color)])
      [] color \in Colors32F -> Ok([elem |-> "F32", n |-> ChannelCount(color)])
      [] OTHER -> Err("Unsupported image type")

\* TryFrom<SerialImagePixel> for ColorType, as used at imagedata.rs:840
ColorOfPixel(pixel) ==
    CASE pixel.elem = "U8" /\ pixel.n = 1 -> Ok("L8")
      [] pixel.elem = "U8" /\ pixel.n = 2 -> Ok("La8")
      [] pixel.elem = "U8" /\ pixel.n = 3 -> Ok("Rgb8")
      [] pixel.elem = "U8" /\ pixel.n = 4 -> Ok("Rgba8")
      [] pixel.elem = "U16" /\ pixel.n = 1 -> Ok("L16")
      [] pixel.elem = "U16" /\ pixel.n = 2 -> Ok("La16")
      [] pixel.elem = "U16" /\ pixel.n = 3 -> Ok("Rgb16")
      [] pixel.elem = "U16" /\ pixel.n = 4 -> Ok("Rgba16")
      [] pixel.elem = "F32" /\ pixel.n = 3 -> Ok("Rgb32F")
      [] pixel.elem = "F32" /\ pixel.n = 4 -> Ok("Rgba32F")
      [] OTHER -> Err("Unsupported pixel type")

SerialPixels == [elem : StorageTypes, n : 1..4]

(***************************************************************************)
(* ImageMetaData.  timestamp is in milliseconds relative to UNIX_EPOCH     *)
(* (negative: before the epoch), exposure in microseconds.                 *)
(***************************************************************************)
MetaData(cam, ts, ext) ==
    [bin_x |-> 1, bin_y |-> 1, img_top |-> 0, img_left |-> 0,
     temperature |-> 0, exposure |-> 0, timestamp |-> ts,
     camera_name |-> cam, gain |-> 0, offset |-> 0,
     min_gain |-> 0, max_gain |-> 0, extended |-> ext]

ExtLists ==
    {<< >>, << <<"K", "a">>, <<"K", "b">> >>}

ConvMetas ==
    {MetaData(<< >>, 0, e) : e \in ExtLists}

(***************************************************************************)
(* image::DynamicImage: the colour type, the dimensions and the container  *)
(* of the ImageBuffer, a flat row-major channel-interleaved sequence.  A   *)
(* container can be longer than width*height*channels (from_raw accepts    *)
(* one that is big enough); the pixels are its first width*height*channels *)
(* elements.                                                               *)
(***************************************************************************)
Pattern(seed, n) == [i \in 1..n |-> seed + i]

NumSubpixels(color, width, height) == width * height * ChannelCount(color)

DynImage(color, width, height, raw) ==
    [color |-> color, width |-> width, height |-> height, raw |-> raw]

\* ImageBuffer::pixels: the part of the container that holds the pixels
Subpixels(image) ==
    SubSeq(image.raw, 1, NumSubpixels(image.color, image.width, image.height))

\* ImageBuffer::get_pixel(x, y)[k], with k counted from 0
GetSubpixel(image, x, y, k) ==
    image.raw[(y * image.width + x) * ChannelCount(image.color) + k + 1]

\* ImageData::new
NewImageData(image, meta) == [img |-> image, meta |-> meta]

NoImg == [none |-> "img"]

NoSer == [none |-> "ser"]

NoWire == [none |-> "wire"]

NoCamera == [none |-> "camera"]

NoOp == [op |-> "none"]

Images ==
    {NewImageData(DynImage(c, w, h, Pattern(s, NumSubpixels(c, w, h))), m) :
        c \in ColorTypes, w \in 0..MaxWidth, h \in 0..MaxHeight,
        s \in 0..MaxSeed, m \in ConvMetas}

\* SerialImageData::new
NewSerialImageData(T, meta, data, width, height, pixel) ==
    [T |-> T, meta |-> meta, data |-> data, width |-> width,
     height |-> height, pixel |-> pixel]

\* Buffers a caller can build with SerialImageData::new: the data is up to
\* MaxSlack elements shorter or longer than width*height*n.
Buffers ==
    {b \in {NewSerialImageData(T, m, Pattern(s, len), w, h, p) :
        T \in StorageTypes, m \in ConvMetas, s \in 0..MaxSeed,
        w \in 0..MaxWidth, h \in 0..MaxHeight, p \in SerialPixels,
        len \in 0..(MaxWidth * MaxHeight * 4 + MaxSlack)} :
        /\ Len(b.data) >= b.width * b.height * b.pixel.n - MaxSlack
        /\ Len(b.data) <= b.width * b.height * b.pixel.n + MaxSlack}

(***************************************************************************)
(* The conversions ImageData -> SerialImageData<T>.  In each arm the image *)
(* already has the arm's colour type, so into_luma8 and its siblings hand  *)
(* over the buffer as it is and into_raw returns its container.            *)
(***************************************************************************)
\* Mutant: the width and the height are handed to SerialImageData::new in
\* the wrong order.
SerialFromImageDataSwapped(value, T) ==
    LET pixel == PixelOfColor(value.img.color)
        arms == CASE T = "U8" -> Colors8
                  [] T = "U16" -> Colors16
                  [] T = "F32" -> Colors32F
    IN  IF pixel.tag # "Ok" THEN Err(pixel.err)
        ELSE IF value.img.color \in arms
             THEN Ok(NewSerialImageData(T, value.meta, value.img.raw,
                                        value.img.height, value.img.width,
                                        pixel.val))
             ELSE Err("Unsupported image type")

\* impl TryFrom<ImageData> for SerialImageData<u8 | u16 | f32>
SerialFromImageData(value, T) ==
    LET image == value.img
        meta == value.meta
        color == image.color
        width == image.width
        height == image.height
        pixel == PixelOfColor(color)
        arms == CASE T = "U8" -> Colors8
                  [] T = "U16" -> Colors16
                  [] T = "F32" -> Colors32F
    IN  IF pixel.tag # "Ok" THEN Err(pixel.err)
        ELSE IF color \in arms
             THEN Ok(NewSerialImageData(T, meta, image.raw, width, height,
                                        pixel.val))
             ELSE Err("Unsupported image type")

\* Mutant: the match on the colour type has an arm for every supported colour,
\* whatever T is.
SerialFromImageDataRefAnyFamily(value, T) ==
    LET pixel == PixelOfColor(value.img.color)
    IN  IF pixel.tag # "Ok" THEN Err(pixel.err)
        ELSE Ok(NewSerialImageData(T, value.meta, value.img.raw,
                                   value.img.width, value.img.height,
                                   pixel.val))

\* impl TryFrom<&ImageData> for SerialImageData<u8 | u16 | f32>
SerialFromImageDataRef(value, T) ==
    LET image == value.img
        meta == value.meta
        color == image.color
        width == image.width
        height == image.height
        pixel == PixelOfColor(color)
    IN  IF pixel.tag # "Ok" THEN Err(pixel.err)
        ELSE CASE T = "U8" /\ color \in Colors8 ->
                    Ok(NewSerialImageData(T, meta, image.raw, width, height,
                                          pixel.val))
               [] T = "U16" /\ color \in Colors16 ->
                    Ok(NewSerialImageData(T, meta, image.raw, width, height,
                                          pixel.val))
               [] T = "F32" /\ color \in Colors32F ->
                    Ok(NewSerialImageData(T, meta, image.raw, width, height,
                                          pixel.val))
               [] OTHER -> Err("Unsupported image type")

(***************************************************************************)
(* The conversions SerialImageData<T> -> ImageData.                        *)
(***************************************************************************)
\* Mutant: the container is cut to the pixels.
FromVecTruncating(color, width, height, buf) ==
    IF NumSubpixels(color, width, height) <= Len(buf)
    THEN Ok(DynImage(color, width, height,
                     SubSeq(buf, 1, NumSubpixels(color, width, height))))
    ELSE Err("None")

\* ImageBuffer::from_vec: None unless the container holds all the pixels
FromVec(color, width, height, buf) ==
    IF NumSubpixels(color, width, height) <= Len(buf)
    THEN Ok(DynImage(color, width, height, buf))
    ELSE Err("None")

\* ImageBuffer::new(width, height), then imgbuf.copy_from_slice(&imgdata): the
\* slice of the new buffer has width*height*channels elements and
\* copy_from_slice panics when the source has another length.
CopyIntoNew(color, width, height, imgdata) ==
    IF Len(imgdata) = NumSubpixels(color, width, height)
    THEN Ok(DynImage(color, width, height, imgdata))
    ELSE Panic("source slice length does not match destination slice length")

\* impl TryFrom<SerialImageData<u8 | u16 | f32>> for ImageData
ImageDataFromSerial(value) ==
    LET meta == value.meta
        imgdata == value.data
        width == value.width
        height == value.height
        color == ColorOfPixel(value.pixel)
    IN  IF color.tag # "Ok" THEN Err(color.err)
        ELSE CASE value.T = "U8" /\ color.val \in Colors8 ->
                    LET r == FromVec(color.val, width, height, imgdata)
                    IN  IF r.tag = "Ok" THEN Ok(NewImageData(r.val, meta))
                        ELSE Err("Could not create image")
               [] value.T = "U16" /\ color.val \in Colors16 ->
                    LET r == CopyIntoNew(color.val, width, height, imgdata)
                    IN  IF r.tag = "Ok" THEN Ok(NewImageData(r.val, meta))
                        ELSE r
               [] value.T = "F32" /\ color.val \in Colors32F ->
                    LET r == CopyIntoNew(color.val, width, height, imgdata)
                    IN  IF r.tag = "Ok" THEN Ok(NewImageData(r.val, meta))
                        ELSE r
               [] OTHER -> Err("Unsupported image type")

\* Mutant: the borrowed conversion checks the length and returns an error.
ImageDataFromSerialRefChecked(value) ==
    LET r == ImageDataFromSerial(value)
    IN  IF r.tag = "Panic" THEN Err("Could not create image") ELSE r

\* impl TryFrom<&SerialImageData<u8 | u16 | f32>> for ImageData
ImageDataFromSerialRef(value) ==
    LET meta == value.meta
        imgdata == value.data
        color == ColorOfPixel(value.pixel)
        arms == CASE value.T = "U8" -> Colors8
                  [] value.T = "U16" -> Colors16
                  [] value.T = "F32" -> Colors32F
    IN  IF color.tag # "Ok" THEN Err(color.err)
        ELSE IF color.val \notin arms THEN Err("Unsupported image type")
        ELSE LET r == IF value.T = "U8"
                      THEN FromVec(color.val, value.width, value.height,
                                   imgdata)
                      ELSE CopyIntoNew(color.val, value.width, value.height,
                                       imgdata)
             IN  CASE r.tag = "Ok" -> Ok(NewImageData(r.val, meta))
                   [] r.tag = "Panic" -> r
                   [] OTHER -> Err("Could not create image")

(***************************************************************************)
(* Serialization.  A serialized value is a value of serde's data model.    *)
(***************************************************************************)
\* #[derive(Serialize)] of SerialImageData<T>: a struct of its fields
SerializeSerialImageData(buf) ==
    [kind |-> "struct", name |-> "SerialImageData",
     fields |-> [meta |-> buf.meta, data |-> buf.data, width |-> buf.width,
                 height |-> buf.height, pixel |-> buf.pixel]]

\* serde's Serialize for Result<T, E>: the newtype variant Ok or Err
SerializeResult(res) ==
    IF res.tag = "Ok"
    THEN [kind |-> "newtype_variant", name |-> "Result", variant |-> "Ok",
          value |-> SerializeSerialImageData(res.val)]
    ELSE [kind |-> "newtype_variant", name |-> "Result", variant |-> "Err",
          value |-> [kind |-> "str", name |-> res.err]]

\* Mutant: the 16-bit arm converts to the 8-bit buffer.
SerializeImageDataWrongFamily(value) ==
    LET out_color == PixelOfColor(value.img.color)
    IN  IF out_color.tag # "Ok" THEN Err(out_color.err)
        ELSE CASE out_color.val.elem = "U8" ->
                    Ok(SerializeResult(SerialFromImageDataRef(value, "U8")))
               [] out_color.val.elem = "U16" ->
                    Ok(SerializeResult(SerialFromImageDataRef(value, "U8")))
               [] out_color.val.elem = "F32" ->
                    Ok(SerializeResult(SerialFromImageDataRef(value, "F32")))

\* impl Serialize for ImageData
SerializeImageData(value) ==
    LET out_color == PixelOfColor(value.img.color)
    IN  IF out_color.tag # "Ok" THEN Err(out_color.err)
        ELSE CASE out_color.val.elem = "U8" ->
                    Ok(SerializeResult(SerialFromImageDataRef(value, "U8")))
               [] out_color.val.elem = "U16" ->
                    Ok(SerializeResult(SerialFromImageDataRef(value, "U16")))
               [] out_color.val.elem = "F32" ->
                    Ok(SerializeResult(SerialFromImageDataRef(value, "F32")))

\* Deserialize of SerialImageData<T>: a struct of the five fields whose data
\* has width*height*channel_count elements; anything else is an error.
DeserializeSerialImageData(value, T) ==
    IF value.kind # "struct" THEN Err("invalid type")
    ELSE LET f == value.fields
         IN  IF Len(f.data) # f.width * f.height * f.pixel.n
             THEN Err("invalid length")
             ELSE Ok(NewSerialImageData(T, f.meta, f.data, f.width, f.height,
                                        f.pixel))

(***************************************************************************)
(* The conversion pipeline as a state machine.  img is the ImageData a     *)
(* caller holds, ser the SerialImageData it holds, wire the last record    *)
(* serialized; imgOf, serOf and wireOf remember the value each was made    *)
(* from; last is the last call with its argument, the value the argument   *)
(* was made from and the outcome.  A conversion by value moves its         *)
(* argument out of the caller's hands.                                     *)
(***************************************************************************)
NoFiles == << >>

InitConv ==
    /\ \/ img \in Images /\ ser = NoSer
       \/ img = NoImg /\ ser \in Buffers
    /\ imgOf = NoSer
    /\ serOf = NoImg
    /\ wire = NoWire
    /\ wireOf = NoImg
    /\ camera = NoCamera
    /\ fs = NoFiles
    /\ last = NoOp

IntoSerialOwned(T) ==
    /\ img # NoImg
    /\ LET r == SerialFromImageData(img, T)
       IN  /\ last' = [op |-> "serial_from_image", T |-> T, owned |-> TRUE,
                       arg |-> img, from |-> imgOf, out |-> r]
           /\ IF r.tag = "Ok"
              THEN ser' = r.val /\ serOf' = img
              ELSE UNCHANGED <<ser, serOf>>
    /\ img' = NoImg
    /\ imgOf' = NoSer
    /\ UNCHANGED <<wire, wireOf, fs, camera>>

IntoSerialRef(T) ==
    /\ img # NoImg
    /\ LET r == SerialFromImageDataRef(img, T)
       IN  /\ last' = [op |-> "serial_from_image", T |-> T, owned |-> FALSE,
                       arg |-> img, from |-> imgOf, out |-> r]
           /\ IF r.tag = "Ok"
              THEN ser' = r.val /\ serOf' = img
              ELSE UNCHANGED <<ser, serOf>>
    /\ UNCHANGED <<img, imgOf, wire, wireOf, fs, camera>>

IntoImageOwned ==
    /\ ser # NoSer
    /\ LET r == ImageDataFromSerial(ser)
       IN  /\ last' = [op |-> "image_from_serial", T |-> ser.T,
                       owned |-> TRUE, arg |-> ser, from |-> serOf, out |-> r]
           /\ IF r.tag = "Ok"
              THEN img' = r.val /\ imgOf' = ser
              ELSE UNCHANGED <<img, imgOf>>
    /\ ser' = NoSer
    /\ serOf' = NoImg
    /\ UNCHANGED <<wire, wireOf, fs, camera>>

IntoImageRef ==
    /\ ser # NoSer
    /\ LET r == ImageDataFromSerialRef(ser)
       IN  /\ last' = [op |-> "image_from_serial", T |-> ser.T,
                       owned |-> FALSE, arg |-> ser, from |-> serOf, out |-> r]
           /\ IF r.tag = "Ok"
              THEN img' = r.val /\ imgOf' = ser
              ELSE UNCHANGED <<img, imgOf>>
    /\ UNCHANGED <<ser, serOf, wire, wireOf, fs, camera>>

Serialize ==
    /\ img # NoImg
    /\ LET r == SerializeImageData(img)
       IN  /\ last' = [op |-> "serialize", T |-> "", owned |-> FALSE,
                       arg |-> img, from |-> imgOf, out |-> r]
           /\ IF r.tag = "Ok"
              THEN wire' = r.val /\ wireOf' = img
              ELSE UNCHANGED <<wire, wireOf>>
    /\ UNCHANGED <<img, imgOf, ser, serOf, fs, camera>>

Deserialize(T) ==
    /\ wire # NoWire
    /\ LET r == DeserializeSerialImageData(wire, T)
       IN  /\ last' = [op |-> "deserialize", T |-> T, owned |-> FALSE,
                       arg |-> wire, from |-> wireOf, out |-> r]
           /\ IF r.tag = "Ok"
              THEN ser' = r.val /\ serOf' = NoImg
              ELSE UNCHANGED <<ser, serOf>>
    /\ UNCHANGED <<img, imgOf, wire, wireOf, fs, camera>>

NextConv ==
    \/ \E T \in StorageTypes : IntoSerialOwned(T)
    \/ \E T \in StorageTypes : IntoSerialRef(T)
    \/ IntoImageOwned
    \/ IntoImageRef
    \/ Serialize
    \/ \E T \in StorageTypes : Deserialize(T)

SpecConv == InitConv /\ [][NextConv]_vars

(***************************************************************************)
(* Text.  str::trim strips leading and trailing whitespace; format!("{}",  *)
(* n) writes n in decimal.                                                 *)
(***************************************************************************)
Whitespace == {" ", "\t", "\n"}

RECURSIVE TrimStart(_)
TrimStart(s) ==
    IF s # << >> /\ Head(s) \in Whitespace THEN TrimStart(Tail(s)) ELSE s

RECURSIVE TrimEnd(_)
TrimEnd(s) ==
    IF s # << >> /\ s[Len(s)] \in Whitespace
    THEN TrimEnd(SubSeq(s, 1, Len(s) - 1))
    ELSE s

\* str::trim
Trim(s) == TrimEnd(TrimStart(s))

DigitChars == <<"0", "1", "2", "3", "4", "5", "6", "7", "8", "9">>

RECURSIVE Decimal(_)
Decimal(n) ==
    IF n < 10 THEN <<DigitChars[n + 1]>>
    ELSE Decimal(n \div 10) \o <<DigitChars[(n % 10) + 1]>>

\* format!("{}_{}.fits{}", file_prefix, timestamp as u64, qualifier)
FormatFitsName(file_prefix, timestamp, qualifier) ==
    file_prefix \o <<"_">> \o Decimal(timestamp)
        \o <<".", "f", "i", "t", "s">> \o qualifier

CompressQualifier ==
    <<"[", "c", "o", "m", "p", "r", "e", "s", "s", "]">>

\* Path::join: an absolute second path replaces the first
PathJoin(dir, name) ==
    IF name # << >> /\ Head(name) = "/"
    THEN [dir |-> "/", name |-> Tail(name)]
    ELSE [dir |-> dir, name |-> name]

RECURSIVE UpToBracket(_)
UpToBracket(s) ==
    IF s = << >> \/ Head(s) = "[" THEN << >>
    ELSE <<Head(s)>> \o UpToBracket(Tail(s))

\* cfitsio's extended file name syntax: the file on disk is named by the part
\* before the qualifier in square brackets
FitsDiskPath(path) == [dir |-> path.dir, name |-> UpToBracket(path.name)]

(***************************************************************************)
(* The file system: fs maps the path of each existing file to its content; *)
(* ExistingDirs are the directories that exist.  A FITS file is the        *)
(* sequence of its HDUs, the first the empty primary HDU that              *)
(* FitsFile::create writes.                                                *)
(***************************************************************************)
ExistingDirs == {"/", "out"}

DirPrefixes == {"out", "missing"}

\* Path::exists
Exists(files, path) == path \in DOMAIN files

\* Mutant: the file stays where it is.
RemoveFileKeeps(files, path) == files

\* std::fs::remove_file, when it succeeds
RemoveFile(files, path) == [q \in (DOMAIN files) \ {path} |-> files[q]]

PrimaryHdu ==
    [name |-> "PRIMARY", data_type |-> "none", dimensions |-> << >>,
     data |-> << >>, elem |-> "none", keys |-> << >>]

NoFile == [none |-> "file"]

\* The elements of channel k (from 0) of every pixel, in pixel order:
\* dat.pixels().map(|p| p[k]).collect()
Channel(image, k) ==
    LET n == ChannelCount(image.color)
    IN  [i \in 1..(image.width * image.height) |->
            image.raw[(i - 1) * n + k + 1]]

\* Mutant: 16-bit images are declared as bytes.
DataTypeShortAsByte(color) ==
    CASE color \in Colors8 \cup Colors16 -> "UnsignedByte"
      [] color \in Colors32F -> "Float"
      [] OTHER -> "Unsupported"

\* ImageType chosen by the first match of save_fits (the `_` arm returns an
\* error, see SupportedLayout)
DataType(color) ==
    CASE color \in Colors8 -> "UnsignedByte"
      [] color \in Colors16 -> "UnsignedShort"
      [] color \in Colors32F -> "Float"
      [] OTHER -> "Unsupported"

\* The element type of the vectors handed to write_image: that of the buffer
\* the image is converted to (to_luma8, to_luma_alpha16, to_rgb32f, ...)
WrittenElem(color) ==
    CASE color \in Colors8 -> "u8"
      [] color \in Colors16 -> "u16"
      [] color \in Colors32F -> "f32"
      [] OTHER -> "none"

\* primary_name chosen by the second match of save_fits
PrimaryName(color) ==
    CASE color \in {"L8", "L16"} -> "IMAGE"
      [] color \in {"La8", "La16"} -> "LUMA"
      [] OTHER -> "RED"

CreateImage(name) == [op |-> "create_image", name |-> name]

WriteImage(hdu, data) == [op |-> "write_image", hdu |-> hdu, data |-> data]

WriteKey(key, value) ==
    [op |-> "write_key", hdu |-> 2, key |-> key, value |-> value]

\* write_la8, write_la16
WriteLa(image) ==
    <<WriteImage(2, Channel(image, 0)), CreateImage("ALPHA"),
      WriteImage(3, Channel(image, 1)), WriteKey("CHANNELS", 2)>>

\* Mutant: the BLUE extension is created before the GREEN one.
WriteRgbSwapped(image) ==
    <<WriteImage(2, Channel(image, 0)), CreateImage("BLUE"),
      WriteImage(3, Channel(image, 2)), CreateImage("GREEN"),
      WriteImage(4, Channel(image, 1)), WriteKey("CHANNELS", 3)>>

\* write_rgb8, write_rgb16, write_rgb32
WriteRgb(image) ==
    <<WriteImage(2, Channel(image, 0)), CreateImage("GREEN"),
      WriteImage(3, Channel(image, 1)), CreateImage("BLUE"),
      WriteImage(4, Channel(image, 2)), WriteKey("CHANNELS", 3)>>

\* write_rgba8, write_rgba16
WriteRgba(image) ==
    <<WriteImage(2, Channel(image, 0)), CreateImage("GREEN"),
      WriteImage(3, Channel(image, 1)), CreateImage("BLUE"),
      WriteImage(4, Channel(image, 2)), CreateImage("ALPHA"),
      WriteImage(5, Channel(image, 3)), WriteKey("CHANNELS", 4)>>

\* write_rgba32: the pixels come from to_rgb32f, which have three channels,
\* so p[3] is out of bounds and panics as soon as there is a pixel; the
\* vectors are collected before anything is written.
WriteRgba32(image) ==
    IF image.width * image.height > 0
    THEN <<[op |-> "panic"]>>
    ELSE <<WriteImage(2, << >>), CreateImage("GREEN"),
           WriteImage(3, << >>), CreateImage("BLUE"),
           WriteImage(4, << >>), CreateImage("ALPHA"),
           WriteImage(5, << >>), WriteKey("CHANNELS", 4)>>

\* The match on imgtype that writes the pixel data
WriteChannels(image) ==
    CASE image.color \in {"L8", "L16"} ->
            <<WriteImage(2, Subpixels(image)), WriteKey("CHANNELS", 1)>>
      [] image.color \in {"La8", "La16"} -> WriteLa(image)
      [] image.color \in {"Rgb8", "Rgb16", "Rgb32F"} -> WriteRgb(image)
      [] image.color \in {"Rgba8", "Rgba16"} -> WriteRgba(image)
      [] image.color = "Rgba32F" -> WriteRgba32(image)
      [] OTHER -> <<[op |-> "unsupported"]>>

\* Mutant: ORIGIN_X and ORIGIN_Y are written in the other order.
WriteHeaderOriginSwapped(meta, progname) ==
    <<WriteKey("PROGRAM", progname),
      WriteKey("CAMERA", meta.camera_name),
      WriteKey("TIMESTAMP", meta.timestamp),
      WriteKey("CCDTEMP", meta.temperature),
      WriteKey("EXPOSURE_US", meta.exposure),
      WriteKey("ORIGIN_Y", meta.img_top),
      WriteKey("ORIGIN_X", meta.img_left),
      WriteKey("BINX", meta.bin_x),
      WriteKey("BINY", meta.bin_y),
      WriteKey("GAIN", meta.gain),
      WriteKey("OFFSET", meta.offset),
      WriteKey("GAIN_MIN", meta.min_gain),
      WriteKey("GAIN_MAX", meta.max_gain)>>
    \o [i \in 1..Len(meta.extended) |->
            WriteKey(meta.extended[i][1], meta.extended[i][2])]

\* The write_key calls that end save_fits
WriteHeader(meta, progname) ==
    <<WriteKey("PROGRAM", progname),
      WriteKey("CAMERA", meta.camera_name),
      WriteKey("TIMESTAMP", meta.timestamp),
      WriteKey("CCDTEMP", meta.temperature),
      WriteKey("EXPOSURE_US", meta.exposure),
      WriteKey("ORIGIN_X", meta.img_left),
      WriteKey("ORIGIN_Y", meta.img_top),
      WriteKey("BINX", meta.bin_x),
      WriteKey("BINY", meta.bin_y),
      WriteKey("GAIN", meta.gain),
      WriteKey("OFFSET", meta.offset),
      WriteKey("GAIN_MIN", meta.min_gain),
      WriteKey("GAIN_MAX", meta.max_gain)>>
    \o [i \in 1..Len(meta.extended) |->
            WriteKey(meta.extended[i][1], meta.extended[i][2])]

\* Every call save_fits makes from FitsFile::create on, in order
FitsCalls(self, path, progname) ==
    <<[op |-> "create", path |-> path],
      CreateImage(PrimaryName(self.img.color))>>
    \o WriteChannels(self.img) \o WriteHeader(self.meta, progname)

\* The number of calls save_fits makes on the FITS file of a supported image
NumFitsCalls(self, progname) ==
    IF self.img.color \in SupportedColors
    THEN Len(FitsCalls(self, [dir |-> "", name |-> << >>], progname))
    ELSE 0

\* The effect of one call on the open file
ApplyCall(file, call, image) ==
    CASE call.op = "create" ->
            [qualifier |-> SubSeq(call.path.name,
                                  Len(UpToBracket(call.path.name)) + 1,
                                  Len(call.path.name)),
             hdus |-> <<PrimaryHdu>>]
      [] call.op = "create_image" ->
            [file EXCEPT !.hdus = Append(@,
                [name |-> call.name, data_type |-> DataType(image.color),
                 dimensions |-> <<image.height, image.width>>,
                 data |-> << >>, elem |-> "none", keys |-> << >>])]
      [] call.op = "write_image" ->
            [file EXCEPT !.hdus[call.hdu].data = call.data,
                         !.hdus[call.hdu].elem = WrittenElem(image.color)]
      [] call.op = "write_key" ->
            [file EXCEPT !.hdus[call.hdu].keys =
                            Append(@, <<call.key, call.value>>)]

\* The calls in order, until one fails (the failAt-th, an I/O error that `?`
\* returns) or panics; done counts the calls that took effect.
RECURSIVE RunCalls(_, _, _, _, _)
RunCalls(file, calls, i, failAt, image) ==
    IF i > Len(calls)
    THEN [result |-> Ok(Nothing), file |-> file, done |-> i - 1]
    ELSE IF calls[i].op = "panic"
    THEN [result |-> Panic("index out of bounds"), file |-> file,
          done |-> i - 1]
    ELSE IF calls[i].op = "unsupported"
    THEN [result |-> Err("Unsupported image type"), file |-> file,
          done |-> i - 1]
    ELSE IF i = failAt \/ (calls[i].op = "create" /\ file # NoFile)
    THEN [result |-> Err("fitsio error"), file |-> file, done |-> i - 1]
    ELSE RunCalls(ApplyCall(file, calls[i], image), calls, i + 1, failAt,
                  image)

Outcome(result, files, events) ==
    [result |-> result, files |-> files, events |-> events]

\* Mutant: the prefix is tested with is_empty, without trim.
EffectivePrefixUntrimmed(self, file_prefix) ==
    IF file_prefix = << >>
    THEN IF self.meta.camera_name = << >>
         THEN <<"i", "m", "a", "g", "e">>
         ELSE self.meta.camera_name
    ELSE file_prefix

\* The file name prefix save_fits uses
EffectivePrefix(self, file_prefix) ==
    IF Trim(file_prefix) = << >>
    THEN IF self.meta.camera_name = << >>
         THEN <<"i", "m", "a", "g", "e">>
         ELSE self.meta.camera_name
    ELSE file_prefix

\* Mutant: every layout is taken as supported before the file is created.
SupportedLayoutAny(color) == TRUE

\* The two matches on imgtype before FitsFile::create: whether neither takes
\* its `_` arm
SupportedLayout(color) == color \in SupportedColors

\* Mutant: the directory is not tested.
DirExistsUnchecked(dir_prefix) == TRUE

\* dir_prefix.exists()
DirExists(dir_prefix) == dir_prefix \in ExistingDirs

\* Mutant: an existing file is overwritten whatever the overwrite flag is.
RefusesOverwriteNever(existed, overwrite) == FALSE

\* The early return for an existing file: fpath.exists() and !overwrite
RefusesOverwrite(existed, overwrite) == existed /\ ~overwrite

\* ImageData::save_fits.  rmOk: whether remove_file succeeds; failAt: the call
\* on the FITS file that fails with an I/O error (0: none).
SaveFits(self, files, dir_prefix, file_prefix, progname, compress, overwrite, rmOk, failAt) ==
    IF ~DirExists(dir_prefix)
    THEN Outcome(Err("Directory does not exist"), files, << >>)
    ELSE IF self.meta.timestamp < 0
    THEN Outcome(Err("Could not convert timestamp"), files, << >>)
    ELSE
    LET timestamp == self.meta.timestamp
        prefix == EffectivePrefix(self, file_prefix)
        fpath == PathJoin(dir_prefix, FormatFitsName(prefix, timestamp, << >>))
        existed == Exists(files, fpath)
        test == [op |-> "exists", path |-> fpath, found |-> existed]
        removal == [op |-> "remove_file", path |-> fpath, ok |-> rmOk]
    IN
    IF RefusesOverwrite(existed, overwrite)
    THEN Outcome(Err("File already exists"), files, <<test>>)
    ELSE IF existed /\ ~rmOk
    THEN Outcome(Err("Could not remove file"), files, <<test, removal>>)
    ELSE
    LET files1 == IF existed THEN RemoveFile(files, fpath) ELSE files
        events1 == IF existed THEN <<test, removal>> ELSE <<test>>
    IN
    IF ~SupportedLayout(self.img.color)
    THEN Outcome(Err("Unsupported image type"), files1, events1)
    ELSE
    LET path == PathJoin(dir_prefix,
                    FormatFitsName(prefix, timestamp,
                        IF compress THEN CompressQualifier ELSE << >>))
        disk == FitsDiskPath(path)
        calls == FitsCalls(self, path, progname)
        before == IF Exists(files1, disk) THEN files1[disk] ELSE NoFile
        run == RunCalls(before, calls, 1, failAt, self.img)
    IN  Outcome(run.result,
                IF run.done = 0 THEN files1 ELSE (disk :> run.file) @@ files1,
                events1 \o SubSeq(calls, 1, run.done))

(***************************************************************************)
(* save_fits as a state machine: one call of save_fits on an image, in a   *)
(* file system where a file may already be at a path the call can target.  *)
(***************************************************************************)
MaxFitsWidth == 2
MaxFitsHeight == 1

FilePrefixes == {<< >>, <<" ">>, <<"p">>, <<"/", "p">>}

FitsMetas ==
    {MetaData(<< >>, 7, << >>),
     [MetaData(<<"c">>, 12, << <<"K", "a">>, <<"K", "b">> >>) EXCEPT
        !.temperature = 3, !.exposure = 4, !.img_left = 5, !.img_top = 6,
        !.bin_x = 2, !.bin_y = 8, !.gain = 9, !.offset = 10,
        !.min_gain = 11, !.max_gain = 13],
     MetaData(<<"c">>, -1, << >>)}

FitsImages ==
    {NewImageData(DynImage(c, w, h, Pattern(0, NumSubpixels(c, w, h))), m) :
        c \in ColorTypes, w \in 0..MaxFitsWidth, h \in 1..MaxFitsHeight,
        m \in FitsMetas}

OldFile == [qualifier |-> << >>, hdus |-> << >>]

KeptPath == [dir |-> "out", name |-> <<"k", "e", "e", "p">>]

\* The paths a call of save_fits on self can test for an existing file
Targets(self) ==
    IF self.meta.timestamp < 0 THEN {}
    ELSE {PathJoin(d, FormatFitsName(EffectivePrefix(self, fp),
                                     self.meta.timestamp, << >>)) :
            d \in ExistingDirs \cap DirPrefixes, fp \in FilePrefixes}

InitFits ==
    /\ img \in FitsImages
    /\ \/ fs = (KeptPath :> OldFile)
       \/ \E t \in Targets(img) : fs = (t :> OldFile) @@ (KeptPath :> OldFile)
    /\ imgOf = NoSer
    /\ ser = NoSer
    /\ serOf = NoImg
    /\ wire = NoWire
    /\ wireOf = NoImg
    /\ camera = NoCamera
    /\ last = NoOp

\* Whether a call with these arguments calls remove_file, and whether it goes
\* on to FitsFile::create when remove_file succeeds: the outcome of a call the
\* code does not make is not drawn.
CallsMade(self, files, dir_prefix, file_prefix, progname, compress, overwrite) ==
    LET probe == SaveFits(self, files, dir_prefix, file_prefix, progname,
                          compress, overwrite, TRUE, 0)
    IN  {probe.events[i].op : i \in 1..Len(probe.events)}

CallSaveFits(dir_prefix, file_prefix, progname, compress, overwrite) ==
    /\ last = NoOp
    /\ \E made \in {CallsMade(img, fs, dir_prefix, file_prefix, progname,
                              compress, overwrite)} :
       \E rmOk \in (IF "remove_file" \in made THEN BOOLEAN ELSE {TRUE}) :
       \E failAt \in (IF rmOk /\ "create" \in made
                      THEN 0..NumFitsCalls(img, progname) ELSE {0}) :
       \E r \in {SaveFits(img, fs, dir_prefix, file_prefix, progname,
                          compress, overwrite, rmOk, failAt)} :
            /\ fs' = r.files
            /\ last' = [op |-> "save_fits", dir_prefix |-> dir_prefix,
                        file_prefix |-> file_prefix, progname |-> progname,
                        compress |-> compress, overwrite |-> overwrite,
                        before |-> fs, out |-> r.result,
                        events |-> r.events]
    /\ UNCHANGED <<img, imgOf, ser, serOf, wire, wireOf, camera>>

NextFits ==
    \E d \in DirPrefixes, fp \in FilePrefixes, c \in BOOLEAN, o \in BOOLEAN :
        CallSaveFits(d, fp, "prog", c, o)

SpecFits == InitFits /\ [][NextFits]_vars

(***************************************************************************)
(* find_optimum_exposure.  The arithmetic of the code is in f32 and f64;   *)
(* here it is the arithmetic of the values these stand for, on whole       *)
(* numbers:                                                                *)
(*   - a fraction (pixel_tgt, pixel_uncertainty) is a whole number of      *)
(*     units of 1.6e-5, so 1.6e-5 is 1 and 1.0 is FractionOne;             *)
(*   - a percentile is a whole number of tenths of a percent;              *)
(*   - a Duration is a whole number of nanoseconds, the exposure of the    *)
(*     metadata a whole number of microseconds;                            *)
(*   - a pixel count (a fraction times 65535) is compared after scaling by *)
(*     12500: a fraction of k units is k * 13107 / 12500 counts.           *)
(* Integer overflow in the index and bin arithmetic panics in a build with *)
(* overflow checks and wraps in a build without them: checks says which.   *)
(***************************************************************************)
FractionOne == 62500

PercentHundred == 1000

U16Modulus == 65536

\* An index that lies beyond every image: what usize arithmetic that wrapped
\* around, or a float far above usize::MAX cast to usize, leaves in coord
BeyondEveryIndex == 1000000

\* Durations are kept below this many nanoseconds
DurationCap == 2000000000

Abs(x) == IF x < 0 THEN -x ELSE x

RECURSIVE Gcd(_, _)
Gcd(a, b) == IF b = 0 THEN a ELSE Gcd(b, a % b)

\* floor(a * b * c / d) for d > 0, cancelling common factors first
MulDiv(a, b, c, d) ==
    LET g1 == Gcd(b, d)
        b1 == b \div g1
        d1 == d \div g1
        g2 == Gcd(a, d1)
        a1 == a \div g2
        d2 == d1 \div g2
        g3 == Gcd(c, d2)
        c1 == c \div g3
        d3 == d2 \div g3
    IN  (a1 * b1 * c1) \div d3

\* Mutant: equal exposure bounds pass.
ValidateArgsEqualBounds(percentile_pix, pixel_tgt, pixel_uncertainty, min_allowed_exp, max_allowed_exp) ==
    IF pixel_tgt < 1 \/ pixel_tgt > FractionOne
    THEN "Target pixel value must be between 1.6e-5 and 1"
    ELSE IF pixel_uncertainty < 1 \/ pixel_uncertainty > FractionOne
    THEN "Pixel uncertainty must be between 1.6e-5 and 1"
    ELSE IF percentile_pix < 0 \/ percentile_pix > PercentHundred
    THEN "Percentile must be between 0 and 100"
    ELSE IF min_allowed_exp > max_allowed_exp
    THEN "Minimum allowed exposure must be less than maximum allowed exposure"
    ELSE ""

\* The argument checks that open find_optimum_exposure: the error message, or
\* "" when the arguments pass
ValidateArgs(percentile_pix, pixel_tgt, pixel_uncertainty, min_allowed_exp, max_allowed_exp) ==
    IF pixel_tgt < 1 \/ pixel_tgt > FractionOne
    THEN "Target pixel value must be between 1.6e-5 and 1"
    ELSE IF pixel_uncertainty < 1 \/ pixel_uncertainty > FractionOne
    THEN "Pixel uncertainty must be between 1.6e-5 and 1"
    ELSE IF percentile_pix < 0 \/ percentile_pix > PercentHundred
    THEN "Percentile must be between 0 and 100"
    ELSE IF min_allowed_exp >= max_allowed_exp
    THEN "Minimum allowed exposure must be less than maximum allowed exposure"
    ELSE ""

\* let max_allowed_bin = if max_allowed_bin < 2 { 1 } else { max_allowed_bin }
EffectiveMaxBin(max_allowed_bin) ==
    IF max_allowed_bin < 2 THEN 1 ELSE max_allowed_bin

\* Mutant: binning adjustment stays on when bin_x differs from bin_y.
ChangeBinIgnoringAxes(meta, max_bin) == ~(max_bin < 2)

\* change_bin
ChangeBin(meta, max_bin) == ~(meta.bin_x # meta.bin_y \/ max_bin < 2)

\* self.img.clone().into_luma16(), as the flat sequence of its pixels: an L16
\* image as it is, an L8 image with every value v widened to v * 257
IntoLuma16(image) ==
    CASE image.color = "L16" -> Subpixels(image)
      [] image.color = "L8" ->
            [i \in 1..Len(Subpixels(image)) |-> Subpixels(image)[i] * 257]

\* img.sort(): the values in ascending order
SortAscending(s) ==
    [i \in 1..Len(s) |->
        CHOOSE v \in {s[j] : j \in 1..Len(s)} :
            /\ Cardinality({j \in 1..Len(s) : s[j] < v}) < i
            /\ i <= Cardinality({j \in 1..Len(s) : s[j] <= v})]

\* What stands for the index of a call that panicked on the way to it
PanicIndex == 0 - 1

\* a - b on usize: the difference, or on overflow PanicIndex (checks) or an
\* index beyond every image
UsizeSub(a, b, checks) ==
    IF a = PanicIndex THEN PanicIndex
    ELSE IF a >= b THEN a - b
    ELSE IF checks THEN PanicIndex
    ELSE BeyondEveryIndex

\* coord: the index of the sample in the sorted pixels, or PanicIndex.  With no
\* pixel, img.len() - 1 overflows; in a build that wraps it is usize::MAX, and
\* percentile_pix * usize::MAX * 0.01 is 0 for percentile 0 and beyond every
\* index otherwise.
Coord(len, percentile_pix, pixel_exclusion, checks) ==
    LET last_ == UsizeSub(len, 1, checks)
        first == IF last_ = PanicIndex THEN PanicIndex
                 ELSE IF percentile_pix > 999 THEN last_
                 ELSE IF last_ = BeyondEveryIndex
                 THEN (IF percentile_pix = 0 THEN 0 ELSE BeyondEveryIndex)
                 ELSE (percentile_pix * last_) \div PercentHundred
    IN  IF first = PanicIndex THEN PanicIndex
        ELSE IF first < pixel_exclusion
        THEN UsizeSub(last_, pixel_exclusion, checks)
        ELSE first

\* The value 1e-5 that stands in for a sample that is missing or not above it
Sentinel == [sentinel |-> TRUE, v |-> 0]

\* imgvec.get(coord): the pixel at coord (counted from 0), or the sentinel
SampleValue(imgvec, coord) ==
    IF coord < Len(imgvec)
    THEN [sentinel |-> FALSE, v |-> imgvec[coord + 1]]
    ELSE Sentinel

\* Mutant: only a sample at or above the target counts as within it.
WithinUncertaintyAbove(pixel_tgt, pixel_uncertainty, val) ==
    IF val.sentinel
    THEN FALSE
    ELSE /\ val.v * 12500 >= pixel_tgt * 13107
         /\ val.v * 12500 - pixel_tgt * 13107 < pixel_uncertainty * 13107

\* (pixel_tgt as f64 - val).abs() < pixel_uncertainty as f64, the fractions
\* already multiplied by 65535.  For the sentinel the test is
\* k * 1.04856 - 0.00001 < u * 1.04856, which whole k and u meet when k <= u.
WithinUncertainty(pixel_tgt, pixel_uncertainty, val) ==
    IF val.sentinel
    THEN pixel_tgt <= pixel_uncertainty
    ELSE Abs(pixel_tgt * 13107 - val.v * 12500) < pixel_uncertainty * 13107

\* let val = if val <= 1e-5 { 1e-5 } else { val }
FloorSample(val) == IF val.sentinel \/ val.v = 0 THEN Sentinel ELSE val

\* Duration::from_secs_f64(pixel_tgt * exposure.as_micros() * 1e-6 / val), in
\* nanoseconds, val already floored at 1e-5
TargetExposure(exposure, pixel_tgt, val) ==
    LET micros == exposure \div 1000
    IN  IF val.sentinel
        THEN micros * pixel_tgt * 104856000
        ELSE MulDiv(micros, pixel_tgt, 26214, 25 * val.v)

\* Whether the exposure that TargetExposure computes is below DurationCap
ExposureFits(exposure, pixel_tgt, val) ==
    LET micros == exposure \div 1000
    IN  IF micros = 0 THEN TRUE
        ELSE IF val.sentinel
        THEN pixel_tgt <= (DurationCap \div 104856000) \div micros
        ELSE (micros * pixel_tgt) \div val.v <= DurationCap \div 26214

\* while tgt_exp < max_allowed_exp && bin_ > 2 { bin_ /= 2; tgt_exp *= 4; }
RECURSIVE HalveBin(_, _, _, _)
HalveBin(tgt_exp, bin_, max_allowed_exp, steps) ==
    IF tgt_exp < max_allowed_exp /\ bin_ > 2
    THEN HalveBin(tgt_exp * 4, bin_ \div 2, max_allowed_exp, steps + 1)
    ELSE [tgt_exp |-> tgt_exp, bin_ |-> bin_, panic |-> FALSE,
          halvings |-> steps, doublings |-> 0]

\* while tgt_exp > max_allowed_exp && bin_ * 2 <= max_allowed_bin
\*     { bin_ *= 2; tgt_exp /= 4; }
\* bin_ * 2 is u16 arithmetic: above 65535 it panics (checks) or wraps.
RECURSIVE DoubleBin(_, _, _, _, _, _)
DoubleBin(tgt_exp, bin_, max_allowed_exp, max_bin, checks, steps) ==
    IF ~(tgt_exp > max_allowed_exp)
    THEN [tgt_exp |-> tgt_exp, bin_ |-> bin_, panic |-> FALSE,
          halvings |-> 0, doublings |-> steps]
    ELSE IF bin_ * 2 >= U16Modulus /\ checks
    THEN [tgt_exp |-> tgt_exp, bin_ |-> bin_, panic |-> TRUE,
          halvings |-> 0, doublings |-> steps]
    ELSE IF (bin_ * 2) % U16Modulus <= max_bin
    THEN DoubleBin(tgt_exp \div 4, (bin_ * 2) % U16Modulus, max_allowed_exp,
                   max_bin, checks, steps + 1)
    ELSE [tgt_exp |-> tgt_exp, bin_ |-> bin_, panic |-> FALSE,
          halvings |-> 0, doublings |-> steps]

\* The block under `if change_bin`: one of the two loops, chosen by the
\* candidate exposure
AdjustBin(target_exposure, bin, max_allowed_exp, max_bin, checks) ==
    IF target_exposure < max_allowed_exp
    THEN HalveBin(target_exposure, bin, max_allowed_exp, 0)
    ELSE DoubleBin(target_exposure, bin, max_allowed_exp, max_bin, checks, 0)

\* Mutant: the bin is not raised to 1.
ClampResultNoBinFloor(target_exposure, bin, min_allowed_exp, max_allowed_exp, max_bin) ==
    LET e1 == IF target_exposure > max_allowed_exp THEN max_allowed_exp
              ELSE target_exposure
        e2 == IF e1 < min_allowed_exp THEN min_allowed_exp ELSE e1
        b2 == IF bin > max_bin THEN max_bin ELSE bin
    IN  <<e2, b2>>

\* The two clamps of the exposure, then the two clamps of the bin
ClampResult(target_exposure, bin, min_allowed_exp, max_allowed_exp, max_bin) ==
    LET e1 == IF target_exposure > max_allowed_exp THEN max_allowed_exp
              ELSE target_exposure
        e2 == IF e1 < min_allowed_exp THEN min_allowed_exp ELSE e1
        b1 == IF bin < 1 THEN 1 ELSE bin
        b2 == IF b1 > max_bin THEN max_bin ELSE b1
    IN  <<e2, b2>>

\* No sample: the call returned before it took one
NoSample == [sentinel |-> FALSE, v |-> 0 - 1]

\* What a call leaves behind: its result and, for the properties, the sample
\* it took (len: the number of pixels, coord: the index, val: the value)
Found(result, len, coord, val, steps) ==
    [result |-> result, len |-> len, coord |-> coord, val |-> val,
     steps |-> steps]

NoSteps == [halvings |-> 0, doublings |-> 0]

\* Stands for the result of a call whose candidate exposure is DurationCap or
\* more: such calls are left out
TooLong == [tag |-> "TooLong", val |-> Nothing, err |-> ""]

\* ImageData::find_optimum_exposure
FindOptimumExposure(self, percentile_pix, pixel_tgt, pixel_uncertainty, min_allowed_exp, max_allowed_exp, max_allowed_bin, pixel_exclusion, checks) ==
    LET exposure == self.meta.exposure
        invalid == ValidateArgs(percentile_pix, pixel_tgt, pixel_uncertainty,
                                min_allowed_exp, max_allowed_exp)
    IN
    IF invalid # ""
    THEN Found(Err(invalid), 0, PanicIndex, NoSample, NoSteps)
    ELSE
    LET max_bin == EffectiveMaxBin(max_allowed_bin)
        change_bin == ChangeBin(self.meta, max_bin)
        bin == self.meta.bin_x % U16Modulus
        imgvec == SortAscending(IntoLuma16(self.img))
        len == Len(imgvec)
        coord == Coord(len, percentile_pix, pixel_exclusion, checks)
    IN
    IF coord = PanicIndex
    THEN Found(Panic("attempt to subtract with overflow"), len, PanicIndex,
               NoSample, NoSteps)
    ELSE
    LET val == SampleValue(imgvec, coord)
    IN
    IF WithinUncertainty(pixel_tgt, pixel_uncertainty, val)
    THEN Found(Ok(<<exposure, bin>>), len, coord, val, NoSteps)
    ELSE
    IF ~ExposureFits(exposure, pixel_tgt, FloorSample(val))
    THEN Found(TooLong, len, coord, val, NoSteps)
    ELSE
    LET target_exposure == TargetExposure(exposure, pixel_tgt,
                                          FloorSample(val))
        adjusted == IF change_bin
                    THEN AdjustBin(target_exposure, bin, max_allowed_exp,
                                   max_bin, checks)
                    ELSE [tgt_exp |-> target_exposure, bin_ |-> bin,
                          panic |-> FALSE, halvings |-> 0, doublings |-> 0]
    IN
    IF adjusted.panic
    THEN Found(Panic("attempt to multiply with overflow"), len, coord, val,
               [halvings |-> adjusted.halvings,
                doublings |-> adjusted.doublings])
    ELSE Found(Ok(ClampResult(adjusted.tgt_exp, adjusted.bin_,
                              min_allowed_exp, max_allowed_exp, max_bin)),
               len, coord, val,
               [halvings |-> adjusted.halvings,
                doublings |-> adjusted.doublings])

(***************************************************************************)
(* find_optimum_exposure as a state machine: one call on an image of one   *)
(* row of L8 or L16 pixels.  The arguments of a call are drawn from the    *)
(* Core values, with at most one of them from the Edge values.             *)
(***************************************************************************)
MaxExpWidth == 3
MaxExpSeed == 1

ExpLevels(color) ==
    IF color = "L16" THEN <<13107, 0, 26214, 1, 65535>>
    ELSE <<51, 0, 102, 1, 255>>

ExpRow(color, width, seed) ==
    [i \in 1..width |-> ExpLevels(color)[((i - 1 + 2 * seed) % 5) + 1]]

\* (bin_x, bin_y) of the metadata
ExpBins ==
    {<<1, 1>>, <<1, 2>>, <<4, 4>>, <<0, 0>>, <<5, 5>>, <<32768, 32768>>}

\* exposure of the metadata, in nanoseconds
ExpExposures == {1000, 8000}

ExpMetas ==
    {[MetaData(<< >>, 0, << >>) EXCEPT
        !.bin_x = b[1], !.bin_y = b[2], !.exposure = e] :
            b \in ExpBins, e \in ExpExposures}
    \cup {[MetaData(<< >>, 0, << >>) EXCEPT !.exposure = e] : e \in {0, 2000}}

ExpImages ==
    {NewImageData(DynImage(c, w, 1, ExpRow(c, w, s)), m) :
        c \in {"L8", "L16"}, w \in 0..MaxExpWidth, s \in 0..MaxExpSeed,
        m \in ExpMetas}

InitExp ==
    /\ img \in ExpImages
    /\ imgOf = NoSer
    /\ ser = NoSer
    /\ serOf = NoImg
    /\ wire = NoWire
    /\ wireOf = NoImg
    /\ camera = NoCamera
    /\ fs = NoFiles
    /\ last = NoOp

CorePercentiles == {0, 500, 1000}
EdgePercentiles == {0 - 1, 999, 1001}
CoreFractions == {1, 12500}
EdgeFractions == {0, FractionOne, FractionOne + 1}
CoreExposureBounds == {<<0, 4000>>, <<1000, 4000>>}
EdgeExposureBounds == {<<4000, 4000>>, <<4000, 1000>>}
CoreMaxBins == {0, 8}
EdgeMaxBins == {1, 2}
CoreExclusions == {0, 1}
EdgeExclusions == {MaxExpWidth}

\* The number of arguments of a call that are Edge values
EdgeCount(p, t, u, e, b, x) ==
    (IF p \in EdgePercentiles THEN 1 ELSE 0)
    + (IF t \in EdgeFractions THEN 1 ELSE 0)
    + (IF u \in EdgeFractions THEN 1 ELSE 0)
    + (IF e \in EdgeExposureBounds THEN 1 ELSE 0)
    + (IF b \in EdgeMaxBins THEN 1 ELSE 0)
    + (IF x \in EdgeExclusions THEN 1 ELSE 0)

\* Mutant: the pixels of the ImageData are left sorted.
SelfAfterCallSorted(self) ==
    [self EXCEPT !.img.raw = SortAscending(self.img.raw)]

\* The ImageData after a call: find_optimum_exposure takes &self and sorts a
\* clone of the image
SelfAfterCall(self) == self

\* A first call.  checks: whether the build has overflow checks.
CallFindOptimumExposure(percentile_pix, pixel_tgt, pixel_uncertainty, min_allowed_exp, max_allowed_exp, max_allowed_bin, pixel_exclusion) ==
    /\ last = NoOp
    /\ \E checks \in BOOLEAN :
       \E r \in {FindOptimumExposure(img, percentile_pix, pixel_tgt,
                     pixel_uncertainty, min_allowed_exp, max_allowed_exp,
                     max_allowed_bin, pixel_exclusion, checks)} :
            /\ r.result # TooLong
            /\ last' = [op |-> "find_optimum_exposure",
                        percentile_pix |-> percentile_pix,
                        pixel_tgt |-> pixel_tgt,
                        pixel_uncertainty |-> pixel_uncertainty,
                        min_allowed_exp |-> min_allowed_exp,
                        max_allowed_exp |-> max_allowed_exp,
                        max_allowed_bin |-> max_allowed_bin,
                        pixel_exclusion |-> pixel_exclusion,
                        checks |-> checks,
                        calls |-> 1,
                        found |-> r]
    /\ img' = SelfAfterCall(img)
    /\ UNCHANGED <<imgOf, ser, serOf, wire, wireOf, fs, camera>>

\* A second call of the same program, with the arguments of the first, on the
\* ImageData as the first call left it
CallFindOptimumExposureAgain ==
    /\ last.op = "find_optimum_exposure"
    /\ last.calls = 1
    /\ last' = [last EXCEPT
                  !.calls = 2,
                  !.found = FindOptimumExposure(img, last.percentile_pix,
                                last.pixel_tgt, last.pixel_uncertainty,
                                last.min_allowed_exp, last.max_allowed_exp,
                                last.max_allowed_bin, last.pixel_exclusion,
                                last.checks)]
    /\ img' = SelfAfterCall(img)
    /\ UNCHANGED <<imgOf, ser, serOf, wire, wireOf, fs, camera>>

NextExp ==
    \/ /\ last = NoOp
       /\ \E p \in CorePercentiles \cup EdgePercentiles,
             t \in CoreFractions \cup EdgeFractions,
             u \in CoreFractions \cup EdgeFractions,
             e \in CoreExposureBounds \cup EdgeExposureBounds,
             b \in CoreMaxBins \cup EdgeMaxBins,
             x \in CoreExclusions \cup EdgeExclusions :
                /\ EdgeCount(p, t, u, e, b, x) <= 1
                /\ CallFindOptimumExposure(p, t, u, e[1], e[2], b, x)
    \/ CallFindOptimumExposureAgain

SpecExp == InitExp /\ [][NextExp]_vars

(***************************************************************************)
(* The metadata of an ImageData (SpecMeta): add_extended_attrib and        *)
(* set_metadata.  ImageMetaData::add_extended_attrib pushes the pair onto  *)
(* the Vec of extended attributes.                                         *)
(***************************************************************************)
MaxExtended == 4

\* Mutant: an entry with the same key is replaced.
AddExtendedAttribUnique(self, key, val) ==
    [self EXCEPT !.meta.extended =
        Append(SelectSeq(self.meta.extended, LAMBDA e : e[1] # key), <<key, val>>)]

\* ImageData::add_extended_attrib
AddExtendedAttrib(self, key, val) ==
    [self EXCEPT !.meta.extended = Append(self.meta.extended, <<key, val>>)]

\* ImageData::set_metadata
SetMetadata(self, meta) == [self EXCEPT !.meta = meta]

AttribKeys == {"K", "J"}

AttribVals == {"a", "b"}

MetaImages ==
    {NewImageData(DynImage(c, 1, 1, Pattern(s, NumSubpixels(c, 1, 1))), m) :
        c \in {"L8", "Rgb16"}, s \in 0..1, m \in FitsMetas}

InitMeta ==
    /\ img \in MetaImages
    /\ imgOf = NoSer
    /\ ser = NoSer
    /\ serOf = NoImg
    /\ wire = NoWire
    /\ wireOf = NoImg
    /\ camera = NoCamera
    /\ fs = NoFiles
    /\ last = NoOp

CallAddExtendedAttrib(key, val) ==
    /\ Len(img.meta.extended) < MaxExtended
    /\ img' = AddExtendedAttrib(img, key, val)
    /\ last' = [op |-> "add_extended_attrib", key |-> key, val |-> val,
                before |-> img]
    /\ UNCHANGED <<imgOf, ser, serOf, wire, wireOf, fs, camera>>

CallSetMetadata(meta) ==
    /\ img' = SetMetadata(img, meta)
    /\ last' = [op |-> "set_metadata", meta |-> meta, before |-> img]
    /\ UNCHANGED <<imgOf, ser, serOf, wire, wireOf, fs, camera>>

NextMeta ==
    \/ \E key \in AttribKeys, val \in AttribVals : CallAddExtendedAttrib(key, val)
    \/ \E meta \in FitsMetas : CallSetMetadata(meta)

SpecMeta == InitMeta /\ [][NextMeta]_vars

(***************************************************************************)
(* The optional setters of the driver traits (SpecDriver).  A camera is    *)
(* the set of optional setters its driver overrides; a setter that is not  *)
(* overridden runs the default body of the trait.                          *)
(***************************************************************************)
\* cameraunit::Error, the variants that carry a message
DriverError(kind, msg) == [kind |-> kind, msg |-> msg]

CameraInfoSetters == {"set_temperature", "set_cooler", "set_cooler_power"}

CameraUnitSetters ==
    {"set_gain", "set_gain_raw", "set_offset", "set_shutter_open", "set_flip",
     "set_temperature", "set_cooler", "set_cooler_power"}

OptionalSetters ==
    {<<"CameraInfo", m>> : m \in CameraInfoSetters}
        \cup {<<"CameraUnit", m>> : m \in CameraUnitSetters}

\* The default body of an optional setter
DefaultSetter(trait, method) ==
    Err(DriverError("Message", "Not implemented"))

\* What an overriding driver can return: the value set, or an error of its own
DriverOutcomes ==
    {Ok(0), Err(DriverError("GeneralError", "driver")),
     Err(DriverError("InvalidValue", "driver"))}

InitDriver ==
    /\ camera \in SUBSET OptionalSetters
    /\ img = NoImg
    /\ imgOf = NoSer
    /\ ser = NoSer
    /\ serOf = NoImg
    /\ wire = NoWire
    /\ wireOf = NoImg
    /\ fs = NoFiles
    /\ last = NoOp

CallSetter(trait, method) ==
    /\ \E out \in (IF <<trait, method>> \in camera THEN DriverOutcomes
                   ELSE {DefaultSetter(trait, method)}) :
           last' = [op |-> "setter", trait |-> trait, method |-> method,
                    out |-> out]
    /\ UNCHANGED <<img, imgOf, ser, serOf, wire, wireOf, fs, camera>>

NextDriver ==
    \E s \in OptionalSetters : CallSetter(s[1], s[2])

SpecDriver == InitDriver /\ [][NextDriver]_vars

(***************************************************************************)
(* Properties of the conversions and of the serializer (SpecConv).         *)
(***************************************************************************)
FamilyColors(T) ==
    CASE T = "U8" -> Colors8
      [] T = "U16" -> Colors16
      [] T = "F32" -> Colors32F

FamilyOfColor(color) ==
    CHOOSE T \in StorageTypes : color \in FamilyColors(T)

\* C1: round trip of the converter.  When an ImageData of a supported layout
\* was converted to the SerialImageData of its element family and that buffer
\* is converted back, the conversion succeeds and gives an image of the same
\* layout, width and height, with the same pixel values in the same order and
\* an equal metadata record.
C1_RoundTrip ==
    (last.op = "image_from_serial" /\ last.from # NoImg) =>
        /\ last.out.tag = "Ok"
        /\ last.out.val.img.color = last.from.img.color
        /\ last.out.val.img.width = last.from.img.width
        /\ last.out.val.img.height = last.from.img.height
        /\ Subpixels(last.out.val.img) = Subpixels(last.from.img)
        /\ last.out.val.meta = last.from.meta

C1_Witness ==
    /\ last.op = "image_from_serial"
    /\ last.from # NoImg
    /\ last.out.tag = "Ok"
    /\ last.out.val.img.color = "Rgba16"
    /\ last.out.val.img.width = 1
    /\ last.out.val.img.height = 2
    /\ last.out.val.meta.extended # << >>

\* C2: shape check when rebuilding an image.  Converting a SerialImageData
\* whose pixel type is one of its element family's layouts and whose data
\* length differs from width*height*channel_count returns an error value: it
\* neither succeeds nor aborts.
C2_ShapeMismatchIsError ==
    (/\ last.op = "image_from_serial"
     /\ ColorOfPixel(last.arg.pixel).tag = "Ok"
     /\ ColorOfPixel(last.arg.pixel).val \in FamilyColors(last.arg.T)
     /\ Len(last.arg.data) #
            last.arg.width * last.arg.height * last.arg.pixel.n)
        => last.out.tag = "Err"

\* C3: family mismatch is an error.  Converting an ImageData to
\* SerialImageData<T>, by value or by reference, returns an error and no
\* buffer whenever the image's layout is not one of T's family.
C3_FamilyMismatchIsError ==
    (/\ last.op = "serial_from_image"
     /\ last.arg.img.color \notin FamilyColors(last.T))
        => /\ last.out.tag = "Err"
           /\ last.out.val = Nothing

C3_Witness ==
    /\ last.op = "serial_from_image"
    /\ ~last.owned
    /\ last.T = "F32"
    /\ last.arg.img.color = "Rgb8"
    /\ last.arg.img.width = 1
    /\ last.arg.img.height = 1
    /\ last.out.tag = "Err"

\* C4: shape invariant of a produced buffer.  Every SerialImageData returned
\* by a successful conversion from an ImageData has the image's width, height
\* and layout tag, and a data sequence of exactly width*height*channel_count
\* elements in row-major channel-interleaved order.
C4_ProducedBufferShape ==
    (last.op = "serial_from_image" /\ last.out.tag = "Ok") =>
        LET image == last.arg.img
            buf == last.out.val
            n == ChannelCount(image.color)
        IN  /\ buf.width = image.width
            /\ buf.height = image.height
            /\ ColorOfPixel(buf.pixel) = Ok(image.color)
            /\ Len(buf.data) = image.width * image.height * n
            /\ \A r \in 0..(image.height - 1), c \in 0..(image.width - 1),
                  k \in 0..(n - 1) :
                    buf.data[(r * image.width + c) * n + k + 1] =
                        GetSubpixel(image, c, r, k)

\* C5: serialization round trip.  Deserializing the record produced by
\* serializing an ImageData of a supported layout, as the typed buffer of the
\* layout's element family, gives back the layout code, width, height, flat
\* pixel sequence and metadata of the image.
C5_SerializeRoundTrip ==
    (/\ last.op = "deserialize"
     /\ last.from # NoImg
     /\ last.from.img.color \in FamilyColors(last.T))
        => /\ last.out.tag = "Ok"
           /\ ColorOfPixel(last.out.val.pixel) = Ok(last.from.img.color)
           /\ last.out.val.width = last.from.img.width
           /\ last.out.val.height = last.from.img.height
           /\ last.out.val.data = Subpixels(last.from.img)
           /\ last.out.val.meta = last.from.meta

\* C6: serializing an ImageData whose layout is outside the ten supported
\* layouts fails and emits no record; for a supported layout the serializer
\* converts to the element family of that layout, so the record is the
\* successfully converted buffer with the pixel type of the layout.
C6_SerializeDispatch ==
    (last.op = "serialize") =>
        IF last.arg.img.color \notin SupportedColors
        THEN last.out.tag = "Err" /\ last.out.val = Nothing
        ELSE /\ last.out.tag = "Ok"
             /\ last.out.val.variant = "Ok"
             /\ last.out.val.value.fields.pixel =
                    [elem |-> FamilyOfColor(last.arg.img.color),
                     n |-> ChannelCount(last.arg.img.color)]
             /\ last.out.val.value.fields.width = last.arg.img.width
             /\ last.out.val.value.fields.height = last.arg.img.height

C6_Witness ==
    /\ last.op = "serialize"
    /\ last.arg.img.color = "Unknown"
    /\ last.out.tag = "Err"
    /\ wire = NoWire

(***************************************************************************)
(* Properties of save_fits (SpecFits).                                     *)
(***************************************************************************)
\* The events of the last call with the given operation, in order
EventsOf(kind) ==
    SelectSeq(last.events, LAMBDA e : e.op = kind)

\* The path the last call tested with fpath.exists()
TestedPath == EventsOf("exists")[1].path

\* The position of the first event of the given operation (0: none)
FirstIndex(kind) ==
    IF \E i \in 1..Len(last.events) : last.events[i].op = kind
    THEN CHOOSE i \in 1..Len(last.events) :
            /\ last.events[i].op = kind
            /\ \A j \in 1..(i - 1) : last.events[j].op # kind
    ELSE 0

\* C7: save_fits with a destination directory that does not exist returns an
\* error whatever the other arguments are, and creates and deletes no file.
C7_MissingDirIsError ==
    (last.op = "save_fits" /\ last.dir_prefix \notin ExistingDirs) =>
        /\ last.out.tag = "Err"
        /\ fs = last.before
        /\ last.events = << >>

C7_Witness ==
    /\ last.op = "save_fits"
    /\ last.dir_prefix = "missing"
    /\ last.overwrite
    /\ last.compress
    /\ last.file_prefix = <<"p">>
    /\ img.img.color = "Rgb16"
    /\ last.out.tag = "Err"

\* The file name with the prefix chosen by emptiness alone
NameAsStated(self, file_prefix) ==
    (IF file_prefix # << >> THEN file_prefix
     ELSE IF self.meta.camera_name # << >> THEN self.meta.camera_name
     ELSE <<"i", "m", "a", "g", "e">>)
    \o <<"_">> \o Decimal(self.meta.timestamp) \o <<".", "f", "i", "t", "s">>

\* The file name with file_prefix used when it holds a character that is not
\* whitespace
NameAsBuilt(self, file_prefix) ==
    (IF \E i \in 1..Len(file_prefix) : file_prefix[i] \notin Whitespace
     THEN file_prefix
     ELSE IF self.meta.camera_name # << >> THEN self.meta.camera_name
     ELSE <<"i", "m", "a", "g", "e">>)
    \o <<"_">> \o Decimal(self.meta.timestamp) \o <<".", "f", "i", "t", "s">>

C9_NoOverwriteWithoutPermission ==
    (last.op = "save_fits") =>
        /\ (/\ EventsOf("exists") # << >>
            /\ TestedPath \in DOMAIN last.before
            /\ ~last.overwrite)
                => /\ last.out.tag = "Err"
                   /\ fs = last.before
        /\ \A i \in 1..Len(last.events) :
              last.events[i].op = "remove_file" =>
                  /\ last.overwrite
                  /\ last.events[i].path = TestedPath
        /\ \A q \in DOMAIN last.before :
              (q \notin DOMAIN fs \/ fs[q] # last.before[q]) =>
                  /\ last.overwrite
                  /\ q = TestedPath

C9_Witness ==
    /\ last.op = "save_fits"
    /\ EventsOf("exists") # << >>
    /\ EventsOf("exists")[1].found
    /\ ~last.overwrite
    /\ last.out.tag = "Err"
    /\ fs = last.before

\* C10: overwrite ordering.  When the target file exists and overwrite is
\* true, the existing file is deleted before the new file is created; if the
\* deletion fails, save_fits returns an error and creates and writes nothing;
\* if it succeeds the old file is gone, and when the write succeeds too the
\* file at the target path is what the same call writes where no file was.
C10_OverwriteOrdering ==
    (/\ last.op = "save_fits"
     /\ EventsOf("exists") # << >>
     /\ EventsOf("exists")[1].found
     /\ last.overwrite)
        => LET removal == EventsOf("remove_file")
               fresh == SaveFits(img, RemoveFile(last.before, TestedPath),
                                 last.dir_prefix, last.file_prefix,
                                 last.progname, last.compress, TRUE, TRUE, 0)
           IN  /\ Len(removal) = 1
               /\ FirstIndex("remove_file") = 2
               /\ FirstIndex("create") # 0 =>
                      FirstIndex("remove_file") < FirstIndex("create")
               /\ ~removal[1].ok =>
                      /\ last.out.tag = "Err"
                      /\ Len(last.events) = 2
                      /\ fs = last.before
               /\ (removal[1].ok /\ FirstIndex("create") = 0) =>
                      TestedPath \notin DOMAIN fs
               /\ (removal[1].ok /\ last.out.tag = "Ok") =>
                      /\ TestedPath \in DOMAIN fs
                      /\ fs[TestedPath] # last.before[TestedPath]
                      /\ fs = fresh.files

C10_Witness ==
    /\ last.op = "save_fits"
    /\ EventsOf("exists") # << >>
    /\ EventsOf("exists")[1].found
    /\ last.overwrite
    /\ EventsOf("remove_file")[1].ok
    /\ last.out.tag = "Ok"
    /\ img.img.color = "La8"
    /\ Len(fs[TestedPath].hdus) = 3

\* The ten layouts save_fits writes
TenLayouts ==
    {"L8", "La8", "Rgb8", "Rgba8", "L16", "La16", "Rgb16", "Rgba16",
     "Rgb32F", "Rgba32F"}

\* The file the last call created, as it is on disk after the call
CreatedFile == fs[FitsDiskPath(EventsOf("create")[1].path)]

\* C11 as stated: when the image's layout is not one of the ten supported
\* layouts, save_fits returns an error before any output file is created, and
\* after the call no file exists at the target path.
C11_NoFileAtTargetAsStated ==
    (last.op = "save_fits" /\ img.img.color \notin TenLayouts) =>
        /\ last.out.tag = "Err"
        /\ EventsOf("create") = << >>
        /\ EventsOf("exists") # << >> => TestedPath \notin DOMAIN fs

\* C11 as amended: when the image's layout is not one of the ten supported
\* layouts, save_fits returns an error and creates no file: every file after
\* the call is a file from before it, unchanged, and a file is at the target
\* path after the call exactly when one was there before and was kept, because
\* overwrite is false or the deletion failed.
C11_FailFastUnsupported ==
    (last.op = "save_fits" /\ img.img.color \notin TenLayouts) =>
        /\ last.out.tag = "Err"
        /\ EventsOf("create") = << >>
        /\ EventsOf("create_image") = << >>
        /\ DOMAIN fs \subseteq DOMAIN last.before
        /\ \A p \in DOMAIN fs : fs[p] = last.before[p]
        /\ EventsOf("exists") # << >> =>
              (TestedPath \in DOMAIN fs <=>
                  /\ EventsOf("exists")[1].found
                  /\ \/ ~last.overwrite
                     \/ ~EventsOf("remove_file")[1].ok)

C11_Witness ==
    /\ last.op = "save_fits"
    /\ img.img.color \notin TenLayouts
    /\ EventsOf("exists") # << >>
    /\ EventsOf("exists")[1].found
    /\ last.overwrite
    /\ EventsOf("remove_file")[1].ok
    /\ last.out.tag = "Err"
    /\ TestedPath \notin DOMAIN fs
    /\ TestedPath \in DOMAIN last.before

\* The extension names of a layout, first to last
ExpectedExtensions(color) ==
    CASE color \in {"L8", "L16"} -> <<"IMAGE">>
      [] color \in {"La8", "La16"} -> <<"LUMA", "ALPHA">>
      [] color \in {"Rgb8", "Rgb16", "Rgb32F"} -> <<"RED", "GREEN", "BLUE">>
      [] color \in {"Rgba8", "Rgba16", "Rgba32F"} ->
            <<"RED", "GREEN", "BLUE", "ALPHA">>

\* Whether the file holds, after its primary HDU, exactly the extensions of
\* the given names, in order, each height by width, with CHANNELS = the number
\* of names written once, on the first of them, and the events created them in
\* that order
HasExtensions(file, names) ==
    LET created == EventsOf("create_image")
    IN  /\ [i \in 1..Len(created) |-> created[i].name] = names
        /\ Len(file.hdus) = Len(names) + 1
        /\ \A i \in 1..Len(names) :
              /\ file.hdus[i + 1].name = names[i]
              /\ file.hdus[i + 1].dimensions =
                    <<img.img.height, img.img.width>>
              /\ SelectSeq(file.hdus[i + 1].keys,
                           LAMBDA kv : kv[1] = "CHANNELS")
                    = IF i = 1 THEN << <<"CHANNELS", Len(names)>> >>
                      ELSE << >>

\* C12: a successful save_fits of an L8/L16 image writes one extension IMAGE
\* with CHANNELS=1, of an La8/La16 image the extensions LUMA then ALPHA with
\* CHANNELS=2, of an Rgb8/Rgb16/Rgb32F image RED, GREEN, BLUE with CHANNELS=3,
\* in this order; the number of extensions is the channel count, all have the
\* dimensions (height, width) and CHANNELS is on the first of them.
C12_FileStructure ==
    (/\ last.op = "save_fits"
     /\ last.out.tag = "Ok"
     /\ img.img.color \in {"L8", "L16", "La8", "La16",
                           "Rgb8", "Rgb16", "Rgb32F"})
        => /\ HasExtensions(CreatedFile, ExpectedExtensions(img.img.color))
           /\ Len(ExpectedExtensions(img.img.color)) =
                 ChannelCount(img.img.color)

C12_Witness ==
    /\ last.op = "save_fits"
    /\ last.out.tag = "Ok"
    /\ img.img.color = "Rgb16"
    /\ img.img.width = 2
    /\ last.compress
    /\ Len(CreatedFile.hdus) = 4
    /\ CreatedFile.hdus[3].name = "GREEN"

\* C13: for Rgba8, Rgba16 and Rgba32F and every image with a pixel, save_fits
\* does not abort, and when it succeeds the file holds exactly the four
\* extensions RED, GREEN, BLUE, ALPHA in that order, each height by width,
\* with CHANNELS=4 on RED and the alpha channel of the image in ALPHA.
C13_RgbaStructure ==
    (/\ last.op = "save_fits"
     /\ img.img.color \in {"Rgba8", "Rgba16", "Rgba32F"}
     /\ img.img.width * img.img.height > 0)
        => /\ last.out.tag # "Panic"
           /\ last.out.tag = "Ok" =>
                 /\ HasExtensions(CreatedFile, <<"RED", "GREEN", "BLUE", "ALPHA">>)
                 /\ CreatedFile.hdus[5].data =
                       [p \in 1..(img.img.width * img.img.height) |->
                           img.img.raw[4 * p]]

\* The values of the header fields, in the order they are written
ExpectedHeader ==
    <<last.progname, img.meta.camera_name, img.meta.timestamp,
      img.meta.temperature, img.meta.exposure, img.meta.img_left,
      img.meta.img_top, img.meta.bin_x, img.meta.bin_y, img.meta.gain,
      img.meta.offset, img.meta.min_gain, img.meta.max_gain>>
    \o [i \in 1..Len(img.meta.extended) |-> img.meta.extended[i][2]]

\* The position of the event that writes CHANNELS, which follows the last
\* write_image
LastChannelEvent ==
    CHOOSE i \in 1..Len(last.events) :
        /\ last.events[i].op = "write_key"
        /\ last.events[i].key = "CHANNELS"

\* C14: in a successful save_fits, after all the channel extensions are
\* written, the first extension receives, each once and in this order, program
\* name, camera name, timestamp, temperature, exposure, origin x (image left),
\* origin y (image top), bin x, bin y, gain, offset, minimum gain, maximum
\* gain, then one field per entry of the metadata extension list, in list
\* order, duplicate keys included.
C14_HeaderFields ==
    (last.op = "save_fits" /\ last.out.tag = "Ok") =>
        LET ev == last.events
            c == LastChannelEvent
            header == SubSeq(ev, c + 1, Len(ev))
            ext == img.meta.extended
        IN  /\ \A i \in 1..c : ev[i].op = "write_key" => i = c
            /\ \A i \in 1..Len(header) :
                  /\ header[i].op = "write_key"
                  /\ header[i].hdu = 2
            /\ [i \in 1..Len(header) |-> header[i].value] = ExpectedHeader
            /\ \A i, j \in 1..13 : i # j => header[i].key # header[j].key
            /\ \A i \in 1..Len(ext) : header[13 + i].key = ext[i][1]
            /\ CreatedFile.hdus[2].keys =
                  [i \in 1..(Len(header) + 1) |->
                      IF i = 1 THEN <<"CHANNELS", ChannelCount(img.img.color)>>
                      ELSE <<header[i - 1].key, header[i - 1].value>>]

C14_Witness ==
    /\ last.op = "save_fits"
    /\ last.out.tag = "Ok"
    /\ Len(img.meta.extended) = 2
    /\ img.meta.extended[1][1] = img.meta.extended[2][1]
    /\ img.meta.img_left # img.meta.img_top
    /\ Len(CreatedFile.hdus[2].keys) = 16

\* The declared type and the element type of a storage family
FamilyTypes(color) ==
    CASE color \in {"L8", "La8", "Rgb8", "Rgba8"} -> <<"UnsignedByte", "u8">>
      [] color \in {"L16", "La16", "Rgb16", "Rgba16"} ->
            <<"UnsignedShort", "u16">>
      [] color \in {"Rgb32F", "Rgba32F"} -> <<"Float", "f32">>

\* C15: save_fits declares every image extension of an L8/La8/Rgb8/Rgba8
\* image as unsigned byte, of an L16/La16/Rgb16/Rgba16 image as unsigned
\* short, of an Rgb32F/Rgba32F image as float, and the data written to an
\* extension has the element type of the declaration.
C15_StorageElementType ==
    (last.op = "save_fits" /\ EventsOf("create") # << >>) =>
        \A i \in 2..Len(CreatedFile.hdus) :
            /\ CreatedFile.hdus[i].data_type = FamilyTypes(img.img.color)[1]
            /\ CreatedFile.hdus[i].elem \in
                  {"none", FamilyTypes(img.img.color)[2]}

C15_Witness ==
    /\ last.op = "save_fits"
    /\ last.out.tag = "Ok"
    /\ img.img.color = "La16"
    /\ img.img.width > 0
    /\ CreatedFile.hdus[3].data_type = "UnsignedShort"
    /\ CreatedFile.hdus[3].elem = "u16"

(***************************************************************************)
(* Properties of find_optimum_exposure (SpecExp).  Fractions are in units  *)
(* of 1.6e-5 (1.0 is 62500), percentiles in tenths of a percent, durations *)
(* in nanoseconds.                                                         *)
(***************************************************************************)
\* Whether the arguments of the last call are ones the validation refuses
ArgsRefused ==
    \/ last.pixel_tgt < 1 \/ last.pixel_tgt > 62500
    \/ last.pixel_uncertainty < 1 \/ last.pixel_uncertainty > 62500
    \/ last.percentile_pix < 0 \/ last.percentile_pix > 1000
    \/ last.min_allowed_exp >= last.max_allowed_exp

\* C16: find_optimum_exposure returns an error, whatever the image and the
\* metadata are, when the target fraction or the uncertainty fraction is
\* outside [1.6e-5, 1.0], when the percentile is outside [0, 100], or when
\* min_allowed_exp >= max_allowed_exp, equality included; arguments at the
\* boundaries 1.6e-5, 1.0, 0 and 100 are not refused.
C16_ArgumentValidation ==
    last.op = "find_optimum_exposure" =>
        (ArgsRefused <=> last.found.result.tag = "Err")

C16_Witness ==
    /\ last.op = "find_optimum_exposure"
    /\ last.min_allowed_exp = last.max_allowed_exp
    /\ last.pixel_tgt = 1
    /\ last.percentile_pix = 1000
    /\ last.found.result.tag = "Err"

\* Whether the sample of the last call differs from the target by less than
\* the uncertainty, all three in counts of 65535
SampleWithin ==
    LET t == last.pixel_tgt * 13107
        u == last.pixel_uncertainty * 13107
        v == last.found.val.v * 12500
    IN  IF last.found.val.sentinel
        THEN last.pixel_tgt <= last.pixel_uncertainty
        ELSE t - v < u /\ v - t < u

\* Whether the last call took a sample
Sampled ==
    /\ last.op = "find_optimum_exposure"
    /\ ~ArgsRefused
    /\ last.found.val # NoSample

\* C17: with valid arguments, when the sampled value differs from
\* target_fraction*65535 by less than uncertainty_fraction*65535, the result is
\* exactly (current exposure, current bin) of the metadata: nothing is
\* recomputed, no binning step is made and nothing is clamped.
C17_UnchangedCase ==
    (Sampled /\ SampleWithin) =>
        /\ last.found.result = Ok(<<img.meta.exposure, img.meta.bin_x>>)
        /\ last.found.steps = NoSteps

C17_Witness ==
    /\ Sampled
    /\ SampleWithin
    /\ last.found.val.v * 12500 < last.pixel_tgt * 13107
    /\ img.meta.exposure > last.max_allowed_exp
    /\ img.meta.bin_x = 32768
    /\ last.max_allowed_bin = 8
    /\ last.found.result = Ok(<<img.meta.exposure, img.meta.bin_x>>)

\* current_exposure * target / max(sample, 1e-5), in nanoseconds
ScaledExposure ==
    IF last.found.val.sentinel \/ last.found.val.v = 0
    THEN img.meta.exposure * last.pixel_tgt * 104856
    ELSE MulDiv(img.meta.exposure, last.pixel_tgt, 13107,
                12500 * last.found.val.v)

\* x clamped to [lo, hi]
Clamped(x, lo, hi) == IF x < lo THEN lo ELSE IF x > hi THEN hi ELSE x

\* C18: with valid arguments, when the sampled value is not within the
\* uncertainty of the target and binning adjustment is off (max_allowed_bin
\* < 2, or bin_x differs from bin_y), the returned exposure is
\* current_exposure * target / max(sample, 1e-5) clamped to [min_allowed_exp,
\* max_allowed_exp], with no factor of 4, and the returned bin is bin_x
\* clamped to [1, effective max bin], which is 1 when max_allowed_bin < 2.
C18_ScalingWithoutBinning ==
    (/\ Sampled
     /\ ~SampleWithin
     /\ (last.max_allowed_bin < 2 \/ img.meta.bin_x # img.meta.bin_y))
        => last.found.result =
              Ok(<<Clamped(ScaledExposure, last.min_allowed_exp,
                           last.max_allowed_exp),
                   Clamped(img.meta.bin_x, 1,
                           IF last.max_allowed_bin < 2 THEN 1
                           ELSE last.max_allowed_bin)>>)

C18_Witness ==
    /\ Sampled
    /\ ~SampleWithin
    /\ img.meta.bin_x # img.meta.bin_y
    /\ last.max_allowed_bin = 8
    /\ ScaledExposure > last.min_allowed_exp
    /\ ScaledExposure < last.max_allowed_exp
    /\ ScaledExposure # img.meta.exposure
    /\ last.found.result = Ok(<<ScaledExposure, 1>>)

\* C19: for a non-empty sample of N sorted values the index used is
\* floor(percentile*(N-1)*0.01), or N-1 when percentile > 99.9; when that
\* index is among the top pixel_exclusion entries (index > N-1-pixel_exclusion)
\* the index used is N-1-pixel_exclusion, otherwise it is left as computed.
C19_SampleIndex ==
    (/\ last.op = "find_optimum_exposure"
     /\ ~ArgsRefused
     /\ last.found.len > 0
     /\ last.pixel_exclusion < last.found.len)
        => LET n == last.found.len
               first == IF last.percentile_pix > 999 THEN n - 1
                        ELSE (last.percentile_pix * (n - 1)) \div 1000
               top == n - 1 - last.pixel_exclusion
           IN  last.found.coord = IF first > top THEN top ELSE first

\* C20: with valid arguments and an image that has no pixels,
\* find_optimum_exposure does not fail or abort: it takes the sentinel 1e-5 as
\* the sample and goes on with the unchanged test and the exposure
\* computation.
C20_EmptySampleFallback ==
    (/\ last.op = "find_optimum_exposure"
     /\ ~ArgsRefused
     /\ img.img.width * img.img.height = 0)
        => /\ last.found.result.tag = "Ok"
           /\ last.found.val = Sentinel

\* Whether the last call took a sample that is not within the uncertainty of
\* the target, with binning adjustment enabled
BinningEnabled ==
    /\ Sampled
    /\ ~SampleWithin
    /\ img.meta.bin_x = img.meta.bin_y
    /\ last.max_allowed_bin >= 2

\* while exposure < max and bin > 2: bin halved, exposure multiplied by 4
RECURSIVE HalvingLoop(_, _, _)
HalvingLoop(exposure, bin, max) ==
    IF exposure < max /\ bin > 2
    THEN HalvingLoop(exposure * 4, bin \div 2, max)
    ELSE <<exposure, bin>>

\* while exposure > max and 2*bin <= max_bin: bin doubled, exposure divided
\* by 4
RECURSIVE DoublingLoop(_, _, _, _)
DoublingLoop(exposure, bin, max, max_bin) ==
    IF exposure > max /\ 2 * bin <= max_bin
    THEN DoublingLoop(exposure \div 4, 2 * bin, max, max_bin)
    ELSE <<exposure, bin>>

\* The halving loop, then the doubling loop on what it leaves
BothLoops ==
    LET halved == HalvingLoop(ScaledExposure, img.meta.bin_x,
                              last.max_allowed_exp)
    IN  DoublingLoop(halved[1], halved[2], last.max_allowed_exp,
                     last.max_allowed_bin)

\* C21: when binning adjustment is enabled and the sample is not within the
\* uncertainty of the target, the candidate (exposure, bin) goes through the
\* halving loop and then through the doubling loop, and the result of both
\* loops is what is clamped and returned (for a bin that can be doubled
\* within 16 bits).
C21_BinningSteps ==
    (BinningEnabled /\ img.meta.bin_x < 32768) =>
        last.found.result =
            Ok(<<Clamped(BothLoops[1], last.min_allowed_exp,
                         last.max_allowed_exp),
                 Clamped(BothLoops[2], 1, last.max_allowed_bin)>>)

\* C22: every successful call that does not take the unchanged early return
\* returns an exposure in [min_allowed_exp, max_allowed_exp] and a bin in
\* [1, max(1, max_allowed_bin)], whatever the exposure and the bin of the
\* metadata are, a bin of 0 included.
C22_ResultBounds ==
    (Sampled /\ ~SampleWithin /\ last.found.result.tag = "Ok") =>
        LET exposure == last.found.result.val[1]
            bin == last.found.result.val[2]
        IN  /\ last.min_allowed_exp <= exposure
            /\ exposure <= last.max_allowed_exp
            /\ 1 <= bin
            /\ bin <= (IF last.max_allowed_bin > 1 THEN last.max_allowed_bin
                       ELSE 1)

C22_Witness ==
    /\ BinningEnabled
    /\ img.meta.bin_x = 0
    /\ ScaledExposure > last.max_allowed_exp
    /\ last.found.result.tag = "Ok"
    /\ last.found.result.val[2] = 1

\* C28: for every image with N > 0 pixels, every percentile in [0, 100] and
\* every pixel_exclusion, pixel_exclusion >= N included, the index computed
\* lies in [0, N-1], N-1-pixel_exclusion does not go below zero, and the
\* sentinel 1e-5 is not used.
C28_IndexInRange ==
    (/\ last.op = "find_optimum_exposure"
     /\ ~ArgsRefused
     /\ img.img.width * img.img.height > 0)
        => /\ last.found.coord >= 0
           /\ last.found.coord <= img.img.width * img.img.height - 1
           /\ ~last.found.val.sentinel

\* bin doubled n times
RECURSIVE DoubledBin(_, _)
DoubledBin(bin, n) == IF n = 0 THEN bin ELSE DoubledBin(2 * bin, n - 1)

\* C29: with binning adjustment on, the call returns for every current bin,
\* every candidate exposure and every max_allowed_bin; the halving loop makes
\* the bin smaller at every step, and the doubling loop stops without the
\* 16-bit bin overflowing.
C29_BinningTerminates ==
    BinningEnabled =>
        /\ last.found.result.tag = "Ok"
        /\ DoubledBin(img.meta.bin_x, last.found.steps.doublings) <= 65535
        /\ last.found.steps.halvings > 0 =>
              last.found.result.val[2] < img.meta.bin_x

MultiChannelLayouts ==
    {"La8", "La16", "Rgb8", "Rgb16", "Rgb32F", "Rgba8", "Rgba16", "Rgba32F"}

\* Whether extension k (from 0) of the file holds channel k of every pixel of
\* the image, in row-major pixel order
HoldsChannel(file, k) ==
    LET n == ChannelCount(img.img.color)
    IN  /\ Len(file.hdus) >= k + 2
        /\ file.hdus[k + 2].data =
              [i \in 1..(img.img.width * img.img.height) |->
                  img.img.raw[(i - 1) * n + k + 1]]

\* C26: for every layout of C > 1 channels, a save_fits that no I/O error
\* stops leaves a file whose k-th extension (k = 0..C-1) holds width*height
\* elements, the i-th being element i*C + k of the interleaved pixels,
\* unchanged.
C26_ChannelSplit ==
    (/\ last.op = "save_fits"
     /\ img.img.color \in MultiChannelLayouts
     /\ last.out.tag # "Err")
        => /\ Len(CreatedFile.hdus) = ChannelCount(img.img.color) + 1
           /\ \A k \in 0..(ChannelCount(img.img.color) - 1) :
                 HoldsChannel(CreatedFile, k)

(***************************************************************************)
(* Further properties of the conversions (SpecConv).                       *)
(***************************************************************************)
\* The last operation converted, to the family of the buffer it was built
\* from, an image that a conversion had built from a buffer
ConvertedBack ==
    /\ last.op = "serial_from_image"
    /\ last.from # NoSer
    /\ last.T = last.from.T

\* C27: when converting a SerialImageData to an ImageData succeeds, converting
\* that ImageData back to a SerialImageData of the same element family gives
\* a buffer of the same width, height and layout whose data is the data of the
\* original buffer, element for element, none dropped and none added.
C27_NoTruncation ==
    ConvertedBack =>
        /\ last.out.tag = "Ok"
        /\ last.out.val.width = last.from.width
        /\ last.out.val.height = last.from.height
        /\ last.out.val.pixel = last.from.pixel
        /\ Len(last.out.val.data) = Len(last.from.data)
        /\ last.out.val.data = last.from.data

C27_Witness ==
    /\ ConvertedBack
    /\ last.T = "U8"
    /\ last.from.width = 1
    /\ last.from.height = 2
    /\ last.from.pixel.n = 2
    /\ Len(last.from.data) = 5
    /\ last.out.tag = "Ok"

\* C30: the conversion that takes its argument by value and the one that
\* takes a reference have the same outcome on every argument, from ImageData
\* to SerialImageData<T> and from SerialImageData<T> to ImageData, and a
\* borrowed conversion leaves its source as it was.
C30_OwnedBorrowedAgree ==
    /\ last.op = "serial_from_image" =>
          /\ last.out = SerialFromImageData(last.arg, last.T)
          /\ last.out = SerialFromImageDataRef(last.arg, last.T)
          /\ ~last.owned => img = last.arg
    /\ last.op = "image_from_serial" =>
          /\ last.out = ImageDataFromSerial(last.arg)
          /\ last.out = ImageDataFromSerialRef(last.arg)
          /\ ~last.owned => ser = last.arg

C30_Witness ==
    /\ last.op = "image_from_serial"
    /\ ~last.owned
    /\ last.T = "U16"
    /\ last.out.tag = "Ok"
    /\ last.out.val.img.color = "Rgb16"
    /\ last.out.val.img.width = 2
    /\ last.out.val.meta.extended # << >>
    /\ ser = last.arg

(***************************************************************************)
(* Properties of the metadata operations (SpecMeta).                       *)
(***************************************************************************)
\* C24: add_extended_attrib(key, val) appends the pair at the end of the
\* extension list, keeps the earlier entries in their order, keeps both
\* entries when the key is already present, and leaves the pixels and every
\* other metadata field as they were; set_metadata replaces the metadata and
\* leaves the image as it was.
C24_ExtensionList ==
    /\ last.op = "add_extended_attrib" =>
          /\ Len(img.meta.extended) = Len(last.before.meta.extended) + 1
          /\ img.meta.extended[Len(img.meta.extended)] = <<last.key, last.val>>
          /\ \A i \in 1..Len(last.before.meta.extended) :
                img.meta.extended[i] = last.before.meta.extended[i]
          /\ img.img = last.before.img
          /\ [img.meta EXCEPT !.extended = << >>]
                = [last.before.meta EXCEPT !.extended = << >>]
    /\ last.op = "set_metadata" =>
          /\ img.meta = last.meta
          /\ img.img = last.before.img

C24_Witness ==
    /\ last.op = "add_extended_attrib"
    /\ Len(last.before.meta.extended) >= 2
    /\ \E i \in 1..Len(last.before.meta.extended) :
          /\ last.before.meta.extended[i][1] = last.key
          /\ last.before.meta.extended[i][2] # last.val
    /\ img.meta.bin_y = 8
    /\ Len(img.img.raw) = 3

(***************************************************************************)
(* Properties of the driver defaults (SpecDriver).                         *)
(***************************************************************************)
DefaultRan ==
    /\ last.op = "setter"
    /\ <<last.trait, last.method>> \notin camera

\* C25: on a camera that does not implement them, set_cooler_power and
\* set_offset return an error of kind GeneralError with the message "Not
\* implemented", the other optional setters an error of kind Message with
\* that message, and no default reports success.
C25_DefaultErrors ==
    DefaultRan =>
        /\ last.out.tag = "Err"
        /\ last.out.err.msg = "Not implemented"
        /\ last.out.err.kind =
              IF last.method \in {"set_cooler_power", "set_offset"}
              THEN "GeneralError"
              ELSE "Message"
====
